---- MODULE Spec2Model ----
(***************************************************************************)
(* State-machine model of openapi-to-openai-function-converter.py:        *)
(* resolve_ref, extract_properties, transform_to_openai_format and main.  *)
(*                                                                         *)
(* Strings.  A Python string is a sequence of symbols.  The symbols "#"    *)
(* and "/" are the two characters resolve_ref treats specially; every      *)
(* other symbol stands for a non-empty run of characters containing        *)
(* neither of them.  lstrip, split, join and concatenation act on these    *)
(* sequences exactly as on the strings.                                    *)
(*                                                                         *)
(* Document nodes (what json.load / yaml.safe_load return):                *)
(*   [map  |-> <<[k |-> string, v |-> node], ...>>]  dict, insertion order *)
(*   [list |-> <<node, ...>>]                        list                  *)
(*   [str  |-> string]                               str                   *)
(*   [bool |-> b]                                    bool                  *)
(*                                                                         *)
(* References.  A Python variable bound to a node of the document is a     *)
(* pointer: the sequence of steps [key |-> k] / [idx |-> i] that leads to  *)
(* the node from the root.  Two variables alias exactly when their         *)
(* pointers are equal.                                                     *)
(***************************************************************************)
EXTENDS Integers, Sequences, FiniteSets, TLC

VARIABLES
    openapi_spec,           \* the loaded document (main:124)
    pc,                     \* position of the run
    pi, mi,                 \* positions of the two loops of lines 50-51
    k,                      \* position of the loop of line 64 / line 86
    function,               \* the descriptor under construction (52-60)
    content,                \* pointer: request_body['content'] (85)
    schema,                 \* pointer: transform's local `schema` (87-89)
    ep_schema,              \* pointer: extract_properties' `schema` (21-26)
    properties,             \* extract_properties' result (22, 39)
    required,               \* list reference returned at line 44
    openai_functions,       \* line 47
    openai_function_codes,  \* line 48
    output_file,            \* openai_format_functions.json (129-130)
    stdout,                 \* what main printed (132)
    ref,                    \* resolve_ref's argument (resolver runs)
    result                  \* resolve_ref's outcome (resolver runs)

vars == <<openapi_spec, pc, pi, mi, k, function, content, schema, ep_schema,
          properties, required, openai_functions, openai_function_codes,
          output_file, stdout, ref, result>>

(***************************************************************************)
(* Bounds                                                                  *)
(***************************************************************************)
MaxOps == 2
MaxRefLen == 5

(***************************************************************************)
(* Nodes                                                                   *)
(***************************************************************************)
M(entries) == [map |-> entries]
L(items) == [list |-> items]
S(string) == [str |-> string]
B(b) == [bool |-> b]
E(key, node) == [k |-> key, v |-> node]

IsMap(n) == DOMAIN n = {"map"}
IsList(n) == DOMAIN n = {"list"}
IsStr(n) == DOMAIN n = {"str"}
IsBool(n) == DOMAIN n = {"bool"}

Keys(n) == [i \in 1..Len(n.map) |-> n.map[i].k]

\* `key in node` for a dict
HasKey(n, key) == IsMap(n) /\ \E i \in 1..Len(n.map) : n.map[i].k = key
\* node[key] for a dict that holds key
MapGet(n, key) == n.map[CHOOSE i \in 1..Len(n.map) : n.map[i].k = key].v
\* node.get(key, default) for a dict
GetOr(n, key, default) == IF HasKey(n, key) THEN MapGet(n, key) ELSE default

\* the node a pointer leads to
RECURSIVE At(_, _)
At(n, p) ==
    IF p = <<>> THEN n
    ELSE IF DOMAIN Head(p) = {"key"}
         THEN At(MapGet(n, Head(p).key), Tail(p))
         ELSE At(n.list[Head(p).idx], Tail(p))

KeyStep(key) == [key |-> key]
IdxStep(i) == [idx |-> i]

\* the document with the list at pointer p replaced (an in-place mutation
\* through an alias of that list)
RECURSIVE SetAt(_, _, _)
SetAt(n, p, new) ==
    IF p = <<>> THEN new
    ELSE IF DOMAIN Head(p) = {"key"}
         THEN LET i == CHOOSE i \in 1..Len(n.map) : n.map[i].k = Head(p).key
              IN  M([n.map EXCEPT ![i] = E(@.k, SetAt(@.v, Tail(p), new))])
         ELSE L([n.list EXCEPT ![Head(p).idx] = SetAt(@, Tail(p), new)])

(***************************************************************************)
(* resolve_ref (lines 14-19)                                               *)
(***************************************************************************)
\* str.lstrip('#/'): drops every leading character that is '#' or '/'
RECURSIVE LStrip(_)
LStrip(string) ==
    IF string # <<>> /\ Head(string) \in {"#", "/"}
    THEN LStrip(Tail(string))
    ELSE string

\* str.split('/'): the pieces between the '/' characters, empty ones kept
RECURSIVE SplitFrom(_, _)
SplitFrom(string, piece) ==
    IF string = <<>> THEN <<piece>>
    ELSE IF Head(string) = "/"
         THEN <<piece>> \o SplitFrom(Tail(string), <<>>)
         ELSE SplitFrom(Tail(string), Append(piece, Head(string)))

Split(string) == SplitFrom(string, <<>>)

Failed == [ok |-> FALSE, ptr |-> <<>>]
Found(p) == [ok |-> TRUE, ptr |-> p]

\* the loop of lines 17-18: result = result[key].  Indexing a dict by a key
\* it lacks raises KeyError; indexing a list, a str or a bool by a str
\* raises TypeError.
RECURSIVE Walk(_, _, _)
Walk(spec, p, keys) ==
    IF keys = <<>> THEN Found(p)
    ELSE IF HasKey(At(spec, p), Head(keys))
         THEN Walk(spec, Append(p, KeyStep(Head(keys))), Tail(keys))
         ELSE Failed

\* lines 15-19; a ref that is not a str has no lstrip (AttributeError)
resolve_ref(r, spec) ==
    IF IsStr(r) THEN Walk(spec, <<>>, Split(LStrip(r.str))) ELSE Failed

(***************************************************************************)
(* Resolver runs: resolve_ref applied to one reference and one document    *)
(***************************************************************************)
RefAlphabet == {"#", "/", "a", "b", "0"}

RefStrings == UNION {[1..n -> RefAlphabet] : n \in 0..MaxRefLen}

K(x) == <<x>>

ResolverDocA ==
    M(<< E(K("a"), M(<< E(K("b"), S(K("x"))), E(<<>>, S(K("y"))) >>)),
         E(<<>>, M(<< E(K("a"), S(K("z"))) >>)),
         E(<<"#", "a">>, S(K("w"))),
         E(K("b"), L(<< S(K("u")), S(K("v")) >>)) >>)

ResolverDocB ==
    M(<< E(K("#"), M(<< E(K("a"), S(K("p"))) >>)),
         E(K("a"), M(<< E(K("a"), S(K("q"))), E(K("0"), S(K("r"))) >>)),
         E(K("0"), S(K("s"))) >>)

ResolverDocs == {ResolverDocA, ResolverDocB}

NoFunction == [name |-> S(<<>>), description |-> S(<<>>),
               parameters |-> [type |-> S(<<"object">>), properties |-> <<>>,
                               required |-> <<>>]]
NoList == [loc |-> "none", ptr |-> <<>>]

Idle ==
    /\ pi = 0 /\ mi = 0 /\ k = 0
    /\ function = NoFunction
    /\ content = <<>> /\ schema = <<>> /\ ep_schema = <<>>
    /\ properties = <<>> /\ required = NoList
    /\ openai_functions = <<>> /\ openai_function_codes = <<>>
    /\ output_file = <<>> /\ stdout = <<>>

ResolverInit ==
    /\ openapi_spec \in ResolverDocs
    /\ ref \in RefStrings
    /\ result = Failed
    /\ pc = "resolve"
    /\ Idle

\* one call resolve_ref(ref, openapi_spec)
Resolve ==
    /\ pc = "resolve"
    /\ result' = resolve_ref(S(ref), openapi_spec)
    /\ pc' = IF result'.ok THEN "returned" ELSE "raised"
    /\ UNCHANGED <<openapi_spec, pi, mi, k, function, content, schema,
                   ep_schema, properties, required, openai_functions,
                   openai_function_codes, output_file, stdout, ref>>

ResolverNext == Resolve

ResolverSpec == ResolverInit /\ [][ResolverNext]_vars

(***************************************************************************)
(* Input documents of the conversion runs                                  *)
(***************************************************************************)
T(x) == S(<<x>>)
RefKey == <<"$ref">>
JsonType == <<"application", "/", "json">>
PlainType == <<"text", "/", "plain">>

RefTo(section, name) == <<"#", "/", "components", "/", section, "/", name>>
RefNode(section, name) == M(<< E(RefKey, S(RefTo(section, name))) >>)
SchemaRef(name) == RefNode("schemas", name)

Components ==
    M(<<
      E(K("parameters"), M(<<
        E(K("Limit"), M(<< E(K("name"), T("limit")), E(K("in"), T("query")),
                           E(K("description"), T("page size")),
                           E(K("schema"), M(<< E(K("type"), T("integer")) >>)) >>))
      >>)),
      E(K("schemas"), M(<<
        E(K("Thing"), M(<<
            E(K("properties"), M(<<
                E(K("name"), M(<< E(K("type"), T("string")),
                                  E(K("description"), T("the name")) >>)),
                E(K("age"), M(<< E(K("type"), T("integer")) >>)) >>)),
            E(K("required"), L(<< T("name") >>)) >>)),
        E(K("Kind"), M(<< E(K("type"), T("string")),
                          E(K("description"), T("the kind")) >>)),
        E(K("KindAlias"), SchemaRef("Kind")),
        E(K("Holder"), M(<<
            E(K("properties"), M(<<
                E(K("thing"), SchemaRef("Thing")),
                E(K("kind"), SchemaRef("Kind")),
                E(K("via"), SchemaRef("KindAlias")),
                E(K("self"), SchemaRef("Loop")) >>)),
            E(K("required"), L(<< T("thing"), T("kind") >>)) >>)),
        E(K("Alias"), SchemaRef("Thing")),
        E(K("Alias2"), SchemaRef("Alias")),
        E(K("Loop"), SchemaRef("Loop")),
        E(K("Ping"), SchemaRef("Pong")),
        E(K("Pong"), SchemaRef("Ping"))
      >>)),
      E(K("requestBodies"), M(<<
        E(K("ThingBody"), M(<<
            E(K("content"), M(<<
                E(JsonType, M(<< E(K("schema"), SchemaRef("Thing")) >>)) >>)) >>))
      >>))
    >>)

Body(entries) == E(K("requestBody"), M(<< E(K("content"), M(entries)) >>))
Media(type, schemaNode) == E(type, M(<< E(K("schema"), schemaNode) >>))

\* Scenario A: one required path parameter without a type
OpGetItem ==
    M(<< E(K("operationId"), T("getItem")),
         E(K("parameters"), L(<<
            M(<< E(K("name"), T("id")), E(K("in"), T("path")),
                 E(K("required"), B(TRUE)) >>) >>)) >>)

\* Scenario B: an inline application/json body
OpCreateThing ==
    M(<< E(K("operationId"), T("createThing")),
         E(K("summary"), T("Create a thing")),
         Body(<< Media(JsonType, M(<<
            E(K("properties"), M(<<
                E(K("name"), M(<< E(K("type"), T("string")) >>)),
                E(K("age"), M(<< E(K("type"), T("integer")) >>)) >>)) >>)) >>) >>)

\* Scenario C: a parameter given by $ref, after an inline one
OpListThings ==
    M(<< E(K("operationId"), T("listThings")),
         E(K("parameters"), L(<<
            M(<< E(K("name"), T("id")), E(K("in"), T("path")),
                 E(K("schema"), M(<< E(K("type"), T("string")) >>)) >>),
            RefNode("parameters", "Limit") >>)) >>)

\* Scenario D: a dangling parameter reference
OpBadRef ==
    M(<< E(K("operationId"), T("badRef")),
         E(K("parameters"), L(<< RefNode("parameters", "Missing") >>)) >>)

\* two parameters of one name, both required
OpDupParams ==
    M(<< E(K("operationId"), T("dupParams")),
         E(K("parameters"), L(<<
            M(<< E(K("name"), T("q")), E(K("in"), T("query")),
                 E(K("required"), B(TRUE)),
                 E(K("schema"), M(<< E(K("type"), T("string")) >>)) >>),
            M(<< E(K("name"), T("q")), E(K("in"), T("path")),
                 E(K("required"), B(TRUE)),
                 E(K("description"), T("again")),
                 E(K("schema"), M(<< E(K("type"), T("integer")) >>)) >>) >>)) >>)

\* a parameter, then two content types that both define its name
OpBodyOverParam ==
    M(<< E(K("operationId"), T("bodyOverParam")),
         E(K("parameters"), L(<<
            M(<< E(K("name"), T("name")), E(K("in"), T("query")) >>) >>)),
         Body(<< Media(PlainType, SchemaRef("Thing")),
                 Media(JsonType, M(<<
                    E(K("properties"), M(<<
                        E(K("name"), M(<< E(K("type"), T("boolean")) >>)) >>)),
                    E(K("required"), L(<< T("name") >>)) >>)) >>) >>)

\* a request body behind a $ref
OpRefBody ==
    M(<< E(K("operationId"), T("refBody")),
         E(K("requestBody"), RefNode("requestBodies", "ThingBody")) >>)

\* a request body without content
OpNoContent ==
    M(<< E(K("operationId"), T("noContent")),
         E(K("requestBody"), M(<< E(K("description"), T("nothing")) >>)) >>)

\* no operationId
OpNoId ==
    M(<< E(K("summary"), T("anonymous")) >>)

\* body schemas on a $ref cycle
OpLoopBody ==
    M(<< E(K("operationId"), T("loopBody")),
         Body(<< Media(JsonType, SchemaRef("Loop")),
                 Media(PlainType, SchemaRef("Ping")) >>) >>)

\* body schemas behind chains of $refs
OpChainBody ==
    M(<< E(K("operationId"), T("chainBody")),
         Body(<< Media(JsonType, SchemaRef("Alias")),
                 Media(PlainType, SchemaRef("Alias2")) >>) >>)

\* a body whose properties are $refs
OpHolderBody ==
    M(<< E(K("operationId"), T("holderBody")),
         Body(<< Media(JsonType, SchemaRef("Holder")) >>) >>)

OpPool == <<OpGetItem, OpCreateThing, OpListThings, OpBadRef, OpDupParams,
            OpBodyOverParam, OpRefBody, OpNoContent, OpNoId, OpLoopBody,
            OpChainBody, OpHolderBody>>

PathNames == <<"items", "things", "more", "extra", "other">>
PathKey(j) == IF j = 1 THEN <<"/", PathNames[1], "/", "{id}">>
              ELSE <<"/", PathNames[j]>>
MethodKeys == <<"get", "post", "put", "delete", "patch">>

Servers == E(K("servers"), L(<<
    M(<< E(K("url"), S(<<"https:", "/", "/", "api.test">>)) >>) >>))

\* the document whose operations are those of the pool that ops numbers, a
\* new path beginning after each position of breaks
Document(ops, breaks, withServers) ==
    LET n == Len(ops)
        PathOf(i) == 1 + Cardinality({b \in breaks : b < i})
        Members(j) == {i \in 1..n : PathOf(i) = j}
        First(j) == CHOOSE i \in Members(j) : \A h \in Members(j) : i <= h
        Methods(j) == [m \in 1..Cardinality(Members(j)) |->
                          E(K(MethodKeys[m]), OpPool[ops[First(j) + m - 1]])]
        nPaths == IF n = 0 THEN 0 ELSE 1 + Cardinality(breaks)
        Paths == [j \in 1..nPaths |-> E(PathKey(j), M(Methods(j)))]
    IN  M((IF withServers THEN << Servers >> ELSE << >>)
          \o << E(K("paths"), M(Paths)), E(K("components"), Components) >>)

(***************************************************************************)
(* Python operations on nodes                                              *)
(***************************************************************************)
None == [none |-> TRUE]
EmptyMap == M(<< >>)
EmptyStr == S(<< >>)

\* `key in node`: dict membership, list membership, substring of a str;
\* a bool is not iterable (TypeError)
CanContain(n) == ~IsBool(n)
Contains(n, key) ==
    \/ HasKey(n, key)
    \/ IsList(n) /\ \E i \in 1..Len(n.list) : n.list[i] = S(key)
    \/ IsStr(n) /\ \E i \in 1..Len(n.str) : <<n.str[i]>> = key

\* the idiom `if '$ref' in x: x = resolve_ref(x['$ref'], openapi_spec)`
\* of lines 25-26, 36-37, 65-66, 69-70, 83-84 and 88-89, on the variable
\* bound to the node at p: one resolution, whatever the target is
Deref(spec, p) ==
    LET n == At(spec, p)
    IN  IF ~CanContain(n) THEN Failed
        ELSE IF Contains(n, RefKey)
             THEN IF IsMap(n) THEN resolve_ref(MapGet(n, RefKey), spec)
                  ELSE Failed
             ELSE Found(p)

\* dict keys must be hashable
Hashable(n) == IsStr(n) \/ IsBool(n)

Truthy(n) ==
    \/ IsBool(n) /\ n.bool
    \/ IsStr(n) /\ n.str # << >>
    \/ IsList(n) /\ n.list # << >>
    \/ IsMap(n) /\ n.map # << >>

\* a bug: d.setdefault(key, val), the first descriptor kept
DictSetKeepFirst(d, key, val) ==
    IF \E i \in 1..Len(d) : d[i].k = key
    THEN d
    ELSE Append(d, [k |-> key, v |-> val])

\* d[key] = val on an insertion-ordered dict
DictSet(d, key, val) ==
    IF \E i \in 1..Len(d) : d[i].k = key
    THEN [d EXCEPT ![CHOOSE i \in 1..Len(d) : d[i].k = key].v = val]
    ELSE Append(d, [k |-> key, v |-> val])

\* d.update(other)
RECURSIVE DictUpdate(_, _)
DictUpdate(d, other) ==
    IF other = << >> THEN d
    ELSE DictUpdate(DictSet(d, Head(other).k, Head(other).v), Tail(other))

DictHas(d, key) == \E i \in 1..Len(d) : d[i].k = key
DictGet(d, key) == d[CHOOSE i \in 1..Len(d) : d[i].k = key].v

\* sep.join(strings)
RECURSIVE Join(_, _)
Join(strings, sep) ==
    IF strings = << >> THEN << >>
    ELSE IF Len(strings) = 1 THEN strings[1]
         ELSE strings[1] \o sep \o Join(Tail(strings), sep)

\* a value formatted into an f-string
Format(n) == IF IsStr(n) THEN n.str ELSE <<"<repr>">>

Descriptor(type, description) == [type |-> type, description |-> description]

(***************************************************************************)
(* extract_properties (lines 21-44)                                        *)
(***************************************************************************)
\* a bug: a property's $ref followed a second time
PropertyDescriptorDeep(spec, p) ==
    LET r1 == Deref(spec, p)
        r == IF r1.ok THEN Deref(spec, r1.ptr) ELSE r1
        d == At(spec, r.ptr)
    IN  IF ~r.ok \/ ~IsMap(d)
        THEN [ok |-> FALSE, v |-> Descriptor(None, None)]
        ELSE [ok |-> TRUE,
              v |-> Descriptor(GetOr(d, K("type"), T("object")),
                               GetOr(d, K("description"), EmptyStr))]

\* lines 36-42 for the property at p
PropertyDescriptor(spec, p) ==
    LET r == Deref(spec, p)
        d == At(spec, r.ptr)
    IN  IF ~r.ok \/ ~IsMap(d)
        THEN [ok |-> FALSE, v |-> Descriptor(None, None)]
        ELSE [ok |-> TRUE,
              v |-> Descriptor(GetOr(d, K("type"), T("object")),
                               GetOr(d, K("description"), EmptyStr))]

\* lines 28-44 on the (possibly resolved) schema at sp: the properties dict
\* and the returned list, which is the schema's own `required` list when it
\* has one and a new empty list otherwise
ExtractFrom(spec, sp) ==
    LET n == At(spec, sp)
        hasProps == HasKey(n, K("properties"))
        pp == Append(sp, KeyStep(K("properties")))
        props == IF hasProps THEN At(spec, pp) ELSE EmptyMap
        descs == [i \in 1..Len(props.map) |->
                     PropertyDescriptor(spec, Append(pp, KeyStep(props.map[i].k)))]
        fail == [ok |-> FALSE, properties |-> << >>, required |-> NoList]
    IN  IF ~IsMap(n) \/ ~IsMap(props) THEN fail
        ELSE IF \E i \in 1..Len(props.map) : ~descs[i].ok THEN fail
        ELSE [ok |-> TRUE,
              properties |-> [i \in 1..Len(props.map) |->
                                 [k |-> S(props.map[i].k), v |-> descs[i].v]],
              required |-> IF HasKey(n, K("required"))
                           THEN [loc |-> "doc",
                                 ptr |-> Append(sp, KeyStep(K("required")))]
                           ELSE [loc |-> "fresh", ptr |-> << >>]]

\* the elements a list reference yields when iterated
ListNode(spec, l) == IF l.loc = "doc" THEN At(spec, l.ptr) ELSE L(<< >>)
Iterable(n) == ~IsBool(n)
Items(n) ==
    IF IsList(n) THEN n.list
    ELSE IF IsMap(n) THEN [i \in 1..Len(n.map) |-> S(n.map[i].k)]
    ELSE [i \in 1..Len(n.str) |-> S(<<n.str[i]>>)]

(***************************************************************************)
(* transform_to_openai_format (lines 46-120)                               *)
(***************************************************************************)
PathsNode(spec) == MapGet(spec, K("paths"))
PathEntry(spec, p) == PathsNode(spec).map[p]
DetailsPtr(spec, p, m) ==
    << KeyStep(K("paths")), KeyStep(PathEntry(spec, p).k),
       KeyStep(PathEntry(spec, p).v.map[m].k) >>
Details(spec, p, m) == PathEntry(spec, p).v.map[m].v

\* details.get('parameters', []) as the sequence the loops run over
ParamsNode(details) == GetOr(details, K("parameters"), L(<< >>))
ParamItems(details) ==
    IF IsList(ParamsNode(details)) THEN ParamsNode(details).list ELSE << >>
\* iterating anything but a list raises at once (a bool) or at its first
\* element (the keys of a dict, the characters of a str)
ParamsIterable(details) ==
    LET n == ParamsNode(details)
    IN  IsList(n) \/ (IsMap(n) /\ n.map = << >>) \/ (IsStr(n) /\ n.str = << >>)

\* lines 52-60
FunctionShell(details) ==
    [name |-> MapGet(details, K("operationId")),
     description |-> GetOr(details, K("summary"), EmptyStr),
     parameters |-> [type |-> T("object"), properties |-> << >>,
                     required |-> << >>]]

\* a bug: the type read from the parameter object, not from its schema
ParamTypeOfParam(spec, pp) ==
    [ok |-> TRUE, type |-> GetOr(At(spec, pp), K("type"), T("string"))]

\* lines 68-71 for the (resolved) parameter at pp
ParamType(spec, pp) ==
    LET param == At(spec, pp)
        r == Deref(spec, Append(pp, KeyStep(K("schema"))))
    IN  IF ~HasKey(param, K("schema")) THEN [ok |-> TRUE, type |-> T("string")]
        ELSE IF ~r.ok \/ ~IsMap(At(spec, r.ptr))
             THEN [ok |-> FALSE, type |-> None]
             ELSE [ok |-> TRUE,
                   type |-> GetOr(At(spec, r.ptr), K("type"), T("string"))]

\* lines 65-78 for the parameter at p0
HandleParam(spec, fn, p0) ==
    LET r == Deref(spec, p0)
        param == At(spec, r.ptr)
        ty == ParamType(spec, r.ptr)
        param_name == MapGet(param, K("name"))
        param_details == Descriptor(ty.type,
                                    GetOr(param, K("description"), EmptyStr))
    IN  IF ~r.ok \/ ~HasKey(param, K("name")) \/ ~ty.ok \/ ~Hashable(param_name)
        THEN [ok |-> FALSE, function |-> fn]
        ELSE [ok |-> TRUE,
              function |->
                [fn EXCEPT
                   !.parameters.properties = DictSet(@, param_name, param_details),
                   !.parameters.required =
                       IF Truthy(GetOr(param, K("required"), B(FALSE)))
                       THEN Append(@, param_name) ELSE @]]

\* a bug: the list returned by extract_properties extended in place
ExtendReturned(functionRequired, returned) == returned

\* the receiver of .extend at line 92
ExtendReceiver(functionRequired, returned) == functionRequired

\* lines 96-97: [param['name'] for param in ... if param.get('in') == where]
RECURSIVE NamesIn(_, _)
NamesIn(items, where) ==
    IF items = << >> THEN [ok |-> TRUE, names |-> << >>]
    ELSE LET param == Head(items)
             rest == NamesIn(Tail(items), where)
         IN  IF ~IsMap(param) THEN [ok |-> FALSE, names |-> << >>]
             ELSE IF GetOr(param, K("in"), None) = T(where)
                  THEN IF ~HasKey(param, K("name")) \/ ~rest.ok
                       THEN [ok |-> FALSE, names |-> << >>]
                       ELSE [ok |-> TRUE,
                             names |-> <<MapGet(param, K("name"))>> \o rest.names]
                  ELSE rest

\* a bug: the property names read from the resolved application/json schema
BodyParamsResolved(spec, details) ==
    LET rb == GetOr(details, K("requestBody"), EmptyMap)
        ct == GetOr(rb, K("content"), EmptyMap)
        js == GetOr(ct, JsonType, EmptyMap)
        raw == GetOr(js, K("schema"), EmptyMap)
        sc == IF HasKey(raw, RefKey) /\ resolve_ref(MapGet(raw, RefKey), spec).ok
              THEN At(spec, resolve_ref(MapGet(raw, RefKey), spec).ptr)
              ELSE raw
        pr == GetOr(sc, K("properties"), EmptyMap)
    IN  IF IsMap(rb) /\ IsMap(ct) /\ IsMap(js) /\ IsMap(sc) /\ IsMap(pr)
        THEN [ok |-> TRUE, names |-> [i \in 1..Len(pr.map) |-> S(pr.map[i].k)]]
        ELSE [ok |-> FALSE, names |-> << >>]

\* line 98 and the .keys() of line 100: the property names of the raw
\* application/json schema
BodyParams(spec, details) ==
    LET rb == GetOr(details, K("requestBody"), EmptyMap)
        ct == GetOr(rb, K("content"), EmptyMap)
        js == GetOr(ct, JsonType, EmptyMap)
        sc == GetOr(js, K("schema"), EmptyMap)
        pr == GetOr(sc, K("properties"), EmptyMap)
    IN  IF IsMap(rb) /\ IsMap(ct) /\ IsMap(js) /\ IsMap(sc) /\ IsMap(pr)
        THEN [ok |-> TRUE, names |-> [i \in 1..Len(pr.map) |-> S(pr.map[i].k)]]
        ELSE [ok |-> FALSE, names |-> << >>]

\* openapi_spec['servers'][0]['url'] (line 101)
ServerUrl(spec) ==
    LET sv == MapGet(spec, K("servers"))
    IN  IF ~HasKey(spec, K("servers")) THEN [ok |-> FALSE, url |-> None]
        ELSE IF ~IsList(sv) \/ sv.list = << >> THEN [ok |-> FALSE, url |-> None]
        ELSE IF ~HasKey(sv.list[1], K("url")) THEN [ok |-> FALSE, url |-> None]
        ELSE [ok |-> TRUE, url |-> MapGet(sv.list[1], K("url"))]

LF == "<LF>"

\* f'"{param}": {param}' for each name (lines 105, 110)
Pairs(names) ==
    [i \in 1..Len(names) |-> <<"\"">> \o Format(names[i]) \o <<"\": ">>
                              \o Format(names[i])]

\* the text built by lines 100-115
StubText(func_name, path_params, query_params, body_params, url, path) ==
    <<"def ">> \o Format(func_name) \o <<"(">>
      \o Join([i \in 1..Len(path_params \o query_params \o body_params) |->
                  (path_params \o query_params \o body_params)[i].str], <<", ">>)
      \o <<"):", LF>>
    \o <<"    url = '">> \o Format(url) \o path \o <<"'", LF>>
    \o <<"    headers = {'Content-Type': 'application", "/", "json'}", LF>>
    \o (IF query_params # << >>
        THEN <<"    params = {">> \o Join(Pairs(query_params), <<", ">>)
             \o <<"}", LF>>
        ELSE <<"    params = {}", LF>>)
    \o (IF body_params # << >>
        THEN <<"    body = {">> \o Join(Pairs(body_params), <<", ">>)
             \o <<"}", LF>>
             \o <<"    response = requests.post(url, headers=headers, params=params, json=body)", LF>>
        ELSE <<"    response = requests.get(url, headers=headers, params=params)", LF>>)
    \o <<"    return response.json()", LF>>

\* lines 95-115 for one operation; join raises on a name that is not a str
FunctionCode(spec, path, details) ==
    LET pp == NamesIn(ParamItems(details), "path")
        qp == NamesIn(ParamItems(details), "query")
        bp == BodyParams(spec, details)
        url == ServerUrl(spec)
        all == pp.names \o qp.names \o bp.names
    IN  IF ~pp.ok \/ ~qp.ok \/ ~bp.ok \/ ~url.ok
           \/ \E i \in 1..Len(all) : ~IsStr(all[i])
        THEN [ok |-> FALSE, code |-> << >>]
        ELSE [ok |-> TRUE,
              code |-> StubText(MapGet(details, K("operationId")), pp.names,
                                qp.names, bp.names, url.url, path)]

\* a bug: the stub inserted at the front of the list
AppendCodeFront(codes, code) == <<code>> \o codes

\* line 116
AppendCode(codes, code) == Append(codes, code)

(***************************************************************************)
(* Conversion runs: main (lines 122-132)                                   *)
(***************************************************************************)
Init ==
    /\ \E n \in 0..MaxOps :
         \E ops \in [1..n -> 1..Len(OpPool)] :
           \E breaks \in SUBSET (1..(n - 1)) :
             \E sv \in BOOLEAN :
               openapi_spec = Document(ops, breaks, sv)
    /\ pc = "start"
    /\ ref = << >>
    /\ result = Failed
    /\ Idle

CurrentDetailsPtr == DetailsPtr(openapi_spec, pi, mi)
CurrentDetails == Details(openapi_spec, pi, mi)
FinalOutput == <<openai_functions, openai_function_codes>>

\* lines 47-50: the two lists, and the first evaluation of
\* openapi_spec['paths'].items()
BeginTransform ==
    /\ pc = "start"
    /\ openai_functions' = << >>
    /\ openai_function_codes' = << >>
    /\ IF HasKey(openapi_spec, K("paths")) /\ IsMap(PathsNode(openapi_spec))
       THEN pc' = "loop" /\ pi' = 1 /\ mi' = 0
       ELSE pc' = "failed" /\ UNCHANGED <<pi, mi>>
    /\ UNCHANGED <<openapi_spec, k, function, content, schema, ep_schema,
                   properties, required, output_file, stdout, ref, result>>

\* line 51 when the methods of the current path are exhausted
NextPath ==
    /\ pc = "loop"
    /\ pi <= Len(PathsNode(openapi_spec).map)
    /\ IsMap(PathEntry(openapi_spec, pi).v)
    /\ mi >= Len(PathEntry(openapi_spec, pi).v.map)
    /\ pi' = pi + 1
    /\ mi' = 0
    /\ UNCHANGED <<openapi_spec, pc, k, function, content, schema, ep_schema,
                   properties, required, openai_functions,
                   openai_function_codes, output_file, stdout, ref, result>>

\* lines 51-63: the next (path, method) pair and its descriptor shell
BeginOperation ==
    /\ pc = "loop"
    /\ pi <= Len(PathsNode(openapi_spec).map)
    /\ \/ ~IsMap(PathEntry(openapi_spec, pi).v)
       \/ mi < Len(PathEntry(openapi_spec, pi).v.map)
    /\ IF /\ IsMap(PathEntry(openapi_spec, pi).v)
          /\ HasKey(Details(openapi_spec, pi, mi + 1), K("operationId"))
          /\ ParamsIterable(Details(openapi_spec, pi, mi + 1))
       THEN /\ mi' = mi + 1
            /\ function' = FunctionShell(Details(openapi_spec, pi, mi + 1))
            /\ k' = 1
            /\ pc' = "params"
       ELSE /\ pc' = "failed"
            /\ UNCHANGED <<mi, function, k>>
    /\ UNCHANGED <<openapi_spec, pi, content, schema, ep_schema, properties,
                   required, openai_functions, openai_function_codes,
                   output_file, stdout, ref, result>>

\* lines 64-78: one pass of the parameter loop
HandleParameter ==
    /\ pc = "params"
    /\ k <= Len(ParamItems(CurrentDetails))
    /\ LET h == HandleParam(openapi_spec, function,
                            CurrentDetailsPtr
                              \o <<KeyStep(K("parameters")), IdxStep(k)>>)
       IN  IF h.ok
           THEN function' = h.function /\ k' = k + 1 /\ pc' = pc
           ELSE pc' = "failed" /\ UNCHANGED <<function, k>>
    /\ UNCHANGED <<openapi_spec, pi, mi, content, schema, ep_schema,
                   properties, required, openai_functions,
                   openai_function_codes, output_file, stdout, ref, result>>

\* lines 81-86: the request body, once the parameters are done
BeginRequestBody ==
    /\ pc = "params"
    /\ k > Len(ParamItems(CurrentDetails))
    /\ IF ~HasKey(CurrentDetails, K("requestBody"))
       THEN pc' = "stub" /\ UNCHANGED <<content, k>>
       ELSE LET r == Deref(openapi_spec,
                           Append(CurrentDetailsPtr, KeyStep(K("requestBody"))))
                request_body == At(openapi_spec, r.ptr)
            IN  IF /\ r.ok
                   /\ HasKey(request_body, K("content"))
                   /\ IsMap(MapGet(request_body, K("content")))
                THEN /\ content' = Append(r.ptr, KeyStep(K("content")))
                     /\ k' = 1
                     /\ pc' = IF MapGet(request_body, K("content")).map = << >>
                              THEN "stub" ELSE "content"
                ELSE pc' = "failed" /\ UNCHANGED <<content, k>>
    /\ UNCHANGED <<openapi_spec, pi, mi, function, schema, ep_schema,
                   properties, required, openai_functions,
                   openai_function_codes, output_file, stdout, ref, result>>

\* lines 87-90 and 22-23: the schema of one content type, resolved once,
\* and the call of extract_properties on it
ContentSchema ==
    /\ pc = "content"
    /\ LET entry == At(openapi_spec, content).map[k]
           sp == content \o <<KeyStep(entry.k), KeyStep(K("schema"))>>
           r == Deref(openapi_spec, sp)
       IN  IF HasKey(entry.v, K("schema")) /\ r.ok
           THEN /\ schema' = r.ptr
                /\ ep_schema' = r.ptr
                /\ properties' = << >>
                /\ required' = [loc |-> "fresh", ptr |-> << >>]
                /\ pc' = "flatten"
           ELSE pc' = "failed" /\ UNCHANGED <<schema, ep_schema, properties, required>>
    /\ UNCHANGED <<openapi_spec, pi, mi, k, function, content,
                   openai_functions, openai_function_codes, output_file,
                   stdout, ref, result>>

\* a bug: `while '$ref' in schema` in place of `if`
FlattenResolveUntilPlain ==
    /\ pc = "flatten"
    /\ LET r == Deref(openapi_spec, ep_schema)
       IN  IF r.ok
           THEN /\ ep_schema' = r.ptr
                /\ pc' = IF Contains(At(openapi_spec, r.ptr), RefKey)
                         THEN "flatten" ELSE "props"
           ELSE pc' = "failed" /\ UNCHANGED ep_schema
    /\ UNCHANGED <<openapi_spec, pi, mi, k, function, content, schema,
                   properties, required, openai_functions,
                   openai_function_codes, output_file, stdout, ref, result>>

\* lines 25-26
FlattenResolve ==
    /\ pc = "flatten"
    /\ LET r == Deref(openapi_spec, ep_schema)
       IN  IF r.ok
           THEN ep_schema' = r.ptr /\ pc' = "props"
           ELSE pc' = "failed" /\ UNCHANGED ep_schema
    /\ UNCHANGED <<openapi_spec, pi, mi, k, function, content, schema,
                   properties, required, openai_functions,
                   openai_function_codes, output_file, stdout, ref, result>>

\* lines 28-44
FlattenProperties ==
    /\ pc = "props"
    /\ LET x == ExtractFrom(openapi_spec, ep_schema)
       IN  IF x.ok
           THEN /\ properties' = x.properties
                /\ required' = x.required
                /\ pc' = "merge"
           ELSE pc' = "failed" /\ UNCHANGED <<properties, required>>
    /\ UNCHANGED <<openapi_spec, pi, mi, k, function, content, schema,
                   ep_schema, openai_functions, openai_function_codes,
                   output_file, stdout, ref, result>>

\* lines 91-92, and the step of the loop of line 86
MergeFlattened ==
    /\ pc = "merge"
    /\ LET source == ListNode(openapi_spec, required)
           receiver == ExtendReceiver([loc |-> "function", ptr |-> << >>],
                                      required)
       IN  IF Iterable(source)
           THEN /\ function' =
                     [function EXCEPT
                        !.parameters.properties = DictUpdate(@, properties),
                        !.parameters.required =
                            IF receiver.loc = "function"
                            THEN @ \o Items(source) ELSE @]
                /\ openapi_spec' =
                     IF receiver.loc = "doc" /\ IsList(At(openapi_spec, receiver.ptr))
                     THEN SetAt(openapi_spec, receiver.ptr,
                                L(At(openapi_spec, receiver.ptr).list
                                  \o Items(source)))
                     ELSE openapi_spec
                /\ k' = k + 1
                /\ pc' = IF k + 1 > Len(At(openapi_spec, content).map)
                         THEN "stub" ELSE "content"
           ELSE pc' = "failed" /\ UNCHANGED <<function, openapi_spec, k>>
    /\ UNCHANGED <<pi, mi, content, schema, ep_schema, properties, required,
                   openai_functions, openai_function_codes, output_file,
                   stdout, ref, result>>

\* lines 95-118: the stub text, then both appends
GenerateStub ==
    /\ pc = "stub"
    /\ LET c == FunctionCode(openapi_spec, PathEntry(openapi_spec, pi).k,
                             CurrentDetails)
       IN  IF c.ok
           THEN /\ openai_function_codes' = AppendCode(openai_function_codes, c.code)
                /\ openai_functions' = Append(openai_functions, function)
                /\ pc' = "loop"
           ELSE /\ pc' = "failed"
                /\ UNCHANGED <<openai_functions, openai_function_codes>>
    /\ UNCHANGED <<openapi_spec, pi, mi, k, function, content, schema,
                   ep_schema, properties, required, output_file, stdout, ref,
                   result>>

\* line 120: both loops are exhausted
ReturnLists ==
    /\ pc = "loop"
    /\ pi > Len(PathsNode(openapi_spec).map)
    /\ pc' = "write"
    /\ UNCHANGED <<openapi_spec, pi, mi, k, function, content, schema,
                   ep_schema, properties, required, openai_functions,
                   openai_function_codes, output_file, stdout, ref, result>>

\* a bug: the output file written on the way out of a failed run too
WriteOutputOnExit ==
    /\ pc \in {"write", "failed"}
    /\ output_file' = Append(output_file, FinalOutput)
    /\ pc' = IF pc = "write" THEN "print" ELSE pc
    /\ UNCHANGED <<openapi_spec, pi, mi, k, function, content, schema,
                   ep_schema, properties, required, openai_functions,
                   openai_function_codes, stdout, ref, result>>

\* lines 127-130
WriteOutput ==
    /\ pc = "write"
    /\ output_file' = Append(output_file, FinalOutput)
    /\ pc' = "print"
    /\ UNCHANGED <<openapi_spec, pi, mi, k, function, content, schema,
                   ep_schema, properties, required, openai_functions,
                   openai_function_codes, stdout, ref, result>>

\* line 132
PrintOutput ==
    /\ pc = "print"
    /\ stdout' = Append(stdout, FinalOutput)
    /\ pc' = "done"
    /\ UNCHANGED <<openapi_spec, pi, mi, k, function, content, schema,
                   ep_schema, properties, required, openai_functions,
                   openai_function_codes, output_file, ref, result>>

Next ==
    \/ BeginTransform
    \/ NextPath
    \/ BeginOperation
    \/ HandleParameter
    \/ BeginRequestBody
    \/ ContentSchema
    \/ FlattenResolve
    \/ FlattenProperties
    \/ MergeFlattened
    \/ GenerateStub
    \/ ReturnLists
    \/ WriteOutput
    \/ PrintOutput

Spec == Init /\ [][Next]_vars

(***************************************************************************)
(* What the claims speak of                                                *)
(***************************************************************************)
\* the reference begins with the two characters "#/"
StartsWithHashSlash(r) == Len(r) >= 2 /\ r[1] = "#" /\ r[2] = "/"

\* the keys k1 .. kn of the reference #/k1/../kn
KeyPath(r) == Split(SubSeq(r, 3, Len(r)))

\* indexing the root by k1, then k2, ..: a mapping key, or the sequence
\* index a key spells ("0" is the first element)
RECURSIVE DirectIndex(_, _, _)
DirectIndex(spec, p, keys) ==
    IF keys = << >> THEN Found(p)
    ELSE LET n == At(spec, p)
         IN  IF HasKey(n, Head(keys))
             THEN DirectIndex(spec, Append(p, KeyStep(Head(keys))), Tail(keys))
             ELSE IF IsList(n) /\ Head(keys) = <<"0">> /\ Len(n.list) >= 1
                  THEN DirectIndex(spec, Append(p, IdxStep(1)), Tail(keys))
                  ELSE Failed

Returned == pc \in {"returned", "raised"}

\* C4: for a reference #/k1/../kn whose key path exists in the document
\* (keys may be empty or begin with '#'; a key may be a sequence index),
\* resolve returns exactly the node reached by indexing the root by k1, ..,
\* kn: not another node, not an error.
C4_ResolveRoundTrip ==
    (Returned /\ StartsWithHashSlash(ref)
       /\ DirectIndex(openapi_spec, << >>, KeyPath(ref)).ok)
    => result = DirectIndex(openapi_spec, << >>, KeyPath(ref))

\* C5: resolve never returns a node for a reference that does not start
\* with "#/": every such reference ends in an error.
C5_MalformedRefRejected ==
    (Returned /\ ~StartsWithHashSlash(ref)) => ~result.ok

\* the (path, method) pairs in traversal order: paths in document order,
\* the methods of each path in document order
RECURSIVE PairsUpTo(_, _)
PairsUpTo(spec, j) ==
    IF j = 0 THEN << >>
    ELSE PairsUpTo(spec, j - 1)
         \o [m \in 1..Len(PathEntry(spec, j).v.map) |->
                [path |-> PathEntry(spec, j).k,
                 method |-> PathEntry(spec, j).v.map[m].k,
                 ptr |-> DetailsPtr(spec, j, m),
                 details |-> PathEntry(spec, j).v.map[m].v]]

TraversalPairs == PairsUpTo(openapi_spec, Len(PathsNode(openapi_spec).map))

\* sub occurs in text as a contiguous piece
Occurs(sub, text) ==
    \E i \in 1..(Len(text) - Len(sub) + 1) :
        SubSeq(text, i, i + Len(sub) - 1) = sub

StartsWith(text, prefix) ==
    Len(text) >= Len(prefix) /\ SubSeq(text, 1, Len(prefix)) = prefix

\* the stub names the operation of the pair and calls the pair's path
StubOf(code, pair) ==
    /\ HasKey(pair.details, K("operationId"))
    /\ StartsWith(code, <<"def ">> \o MapGet(pair.details, K("operationId")).str
                        \o <<"(">>)
    /\ Occurs(pair.path \o <<"'", LF>>, code)

Emitted == 1..Len(openai_functions)
Completed == pc \in {"write", "print", "done"}

\* C1: functions and stubs have the same length after every processed
\* operation; entry i of both is built from the i-th (path, method) pair of
\* the traversal; on completion the length is the number of pairs.
C1_ParallelLists ==
    /\ Len(openai_functions) = Len(openai_function_codes)
    /\ Len(openai_functions) <= Len(TraversalPairs)
    /\ \A i \in Emitted :
         /\ HasKey(TraversalPairs[i].details, K("operationId"))
         /\ openai_functions[i].name
              = MapGet(TraversalPairs[i].details, K("operationId"))
         /\ StubOf(openai_function_codes[i], TraversalPairs[i])
    /\ Completed => Len(openai_functions) = Len(TraversalPairs)

\* two operations of different paths and names were converted
C1_Witness ==
    /\ pc = "done"
    /\ Len(openai_functions) = 2
    /\ openai_functions[1].name # openai_functions[2].name
    /\ TraversalPairs[1].path # TraversalPairs[2].path

\* the node a $ref node points to, by direct indexing
RefTarget(spec, n) ==
    DirectIndex(spec, << >>, KeyPath(MapGet(n, RefKey).str))

IsRefNode(n) == HasKey(n, RefKey)

\* a parameter entry that is a $ref to a parameter object with a name and
\* a typed inline schema
IsParamRef(spec, raw) ==
    /\ IsRefNode(raw)
    /\ Len(raw.map) = 1
    /\ RefTarget(spec, raw).ok
    /\ LET t == At(spec, RefTarget(spec, raw).ptr)
       IN  /\ HasKey(t, K("name"))
           /\ HasKey(t, K("schema"))
           /\ HasKey(MapGet(t, K("schema")), K("type"))

ParamRefName(spec, raw) ==
    MapGet(At(spec, RefTarget(spec, raw).ptr), K("name"))
ParamRefType(spec, raw) ==
    MapGet(MapGet(At(spec, RefTarget(spec, raw).ptr), K("schema")), K("type"))

\* an inline parameter with a name and at most an inline schema
IsPlainParam(raw) ==
    /\ IsMap(raw) /\ ~IsRefNode(raw)
    /\ HasKey(raw, K("name")) /\ IsStr(MapGet(raw, K("name")))
    /\ HasKey(raw, K("schema")) =>
         (IsMap(MapGet(raw, K("schema"))) /\ ~IsRefNode(MapGet(raw, K("schema"))))

\* an operation with an operationId, no request body, and parameters that
\* are plain or $refs to parameter objects, one of them a $ref
IsParamRefOperation(spec, details) ==
    /\ HasKey(details, K("operationId"))
    /\ ~HasKey(details, K("requestBody"))
    /\ \A j \in 1..Len(ParamItems(details)) :
         IsParamRef(spec, ParamItems(details)[j]) \/ IsPlainParam(ParamItems(details)[j])
    /\ \E j \in 1..Len(ParamItems(details)) : IsParamRef(spec, ParamItems(details)[j])

\* the number of parameters of the operation that carry the name
Carriers(spec, details, name) ==
    Cardinality({j \in 1..Len(ParamItems(details)) :
        LET raw == ParamItems(details)[j]
        IN  IF IsParamRef(spec, raw) THEN ParamRefName(spec, raw) = name
            ELSE HasKey(raw, K("name")) /\ MapGet(raw, K("name")) = name})

\* C2: a parameter entry that is a $ref to a parameter object under
\* components is resolved: once handled, properties holds under the
\* referenced parameter's name a descriptor with the type of its schema; it
\* is there in the emitted descriptor; and a document of such operations
\* with a server is converted to the end.
C2_ParamRefResolved ==
    /\ (pc = "params" /\ k > 1
          /\ IsParamRef(openapi_spec, ParamItems(CurrentDetails)[k - 1]))
       => LET raw == ParamItems(CurrentDetails)[k - 1]
              name == ParamRefName(openapi_spec, raw)
          IN  /\ DictHas(function.parameters.properties, name)
              /\ DictGet(function.parameters.properties, name).type
                   = ParamRefType(openapi_spec, raw)
    /\ \A i \in Emitted :
         LET details == TraversalPairs[i].details
         IN  \A j \in 1..Len(ParamItems(details)) :
               LET raw == ParamItems(details)[j]
               IN  (/\ IsParamRef(openapi_spec, raw)
                    /\ ~HasKey(details, K("requestBody"))
                    /\ Carriers(openapi_spec, details,
                                ParamRefName(openapi_spec, raw)) = 1)
                   => /\ DictHas(openai_functions[i].parameters.properties,
                                 ParamRefName(openapi_spec, raw))
                      /\ DictGet(openai_functions[i].parameters.properties,
                                 ParamRefName(openapi_spec, raw)).type
                           = ParamRefType(openapi_spec, raw)
    /\ pc = "failed"
       => ~(/\ HasKey(openapi_spec, K("servers"))
            /\ \A i \in 1..Len(TraversalPairs) :
                 IsParamRefOperation(openapi_spec, TraversalPairs[i].details))

\* Scenario C was converted: limit has type integer in an emitted descriptor
C2_Witness ==
    /\ pc = "done"
    /\ \E i \in Emitted :
         /\ IsParamRefOperation(openapi_spec, TraversalPairs[i].details)
         /\ DictHas(openai_functions[i].parameters.properties, T("limit"))
         /\ DictGet(openai_functions[i].parameters.properties, T("limit")).type
              = T("integer")

\* what makes the conversion of one operation fail
DanglingParam(spec, details) ==
    \E j \in 1..Len(ParamItems(details)) :
        /\ IsRefNode(ParamItems(details)[j])
        /\ ~RefTarget(spec, ParamItems(details)[j]).ok

BodyWithoutContent(details) ==
    /\ HasKey(details, K("requestBody"))
    /\ ~IsRefNode(MapGet(details, K("requestBody")))
    /\ ~HasKey(MapGet(details, K("requestBody")), K("content"))

Malformed(spec) ==
    \/ \E i \in 1..Len(TraversalPairs) :
         LET details == TraversalPairs[i].details
         IN  \/ ~HasKey(details, K("operationId"))
             \/ DanglingParam(spec, details)
             \/ BodyWithoutContent(details)
    \/ TraversalPairs # << >> /\ ~HasKey(spec, K("servers"))

NoOutput == output_file = << >> /\ stdout = << >>

\* C3: a run over a document with a failing operation (dangling $ref, no
\* operationId, request body without content, no servers with an operation)
\* never completes and produces no output; a failed run has written and
\* printed nothing, whatever was converted before, and takes no further step.
C3_AllOrNothing ==
    /\ (Completed \/ ~NoOutput) => ~Malformed(openapi_spec)
    /\ pc = "failed" => (NoOutput /\ ~ENABLED Next)
    /\ ~NoOutput => pc \in {"print", "done"}

\* a run failed after a first operation had been converted
C3_Witness ==
    /\ pc = "failed"
    /\ Len(openai_functions) >= 1
    /\ HasKey(openapi_spec, K("servers"))

\* the concatenation of a sequence of sequences
RECURSIVE Concat(_)
Concat(seqs) == IF seqs = << >> THEN << >> ELSE Head(seqs) \o Concat(Tail(seqs))

\* what the parameter at p0 contributes: its name and descriptor
ParamContribution(spec, p0) ==
    HandleParam(spec, NoFunction, p0).function.parameters.properties

\* what the i-th content type of the content map at cp contributes: the
\* flattened properties of its schema
BodyContribution(spec, cp, i) ==
    LET sp == cp \o <<KeyStep(At(spec, cp).map[i].k), KeyStep(K("schema"))>>
    IN  ExtractFrom(spec, Deref(spec, Deref(spec, sp).ptr).ptr).properties

\* the contributors of an operation in order: its parameters in list
\* order, then the properties of each content type in content-map order
Contributions(spec, dp) ==
    LET details == At(spec, dp)
        ps == [j \in 1..Len(ParamItems(details)) |->
                  ParamContribution(spec, dp \o <<KeyStep(K("parameters")),
                                                  IdxStep(j)>>)]
        cp == Append(Deref(spec, Append(dp, KeyStep(K("requestBody")))).ptr,
                     KeyStep(K("content")))
        bs == IF HasKey(details, K("requestBody"))
              THEN [i \in 1..Len(At(spec, cp).map) |-> BodyContribution(spec, cp, i)]
              ELSE << >>
    IN  Concat(ps \o bs)

LastOf(c, name) ==
    c[CHOOSE i \in 1..Len(c) :
        c[i].k = name /\ \A j \in (i + 1)..Len(c) : c[j].k # name].v

\* C6: in an emitted descriptor, properties[name] is the descriptor of the
\* last contributor of that name (parameters in list order, then the
\* properties of each content type in content-map order); every contributed
\* name is there once, and no earlier descriptor survives.
C6_LastWriteWins ==
    \A i \in Emitted :
        LET props == openai_functions[i].parameters.properties
            c == Contributions(openapi_spec, TraversalPairs[i].ptr)
        IN  /\ {props[j].k : j \in 1..Len(props)} = {c[j].k : j \in 1..Len(c)}
            /\ \A j \in 1..Len(props) : props[j].v = LastOf(c, props[j].k)
            /\ \A j1, j2 \in 1..Len(props) :
                 props[j1].k = props[j2].k => j1 = j2

\* a parameter `name`, overwritten by a content type, overwritten by a
\* later content type
C6_Witness ==
    /\ pc = "done"
    /\ \E i \in Emitted :
         LET props == openai_functions[i].parameters.properties
             c == Contributions(openapi_spec, TraversalPairs[i].ptr)
         IN  /\ Cardinality({j \in 1..Len(c) : c[j].k = T("name")}) = 3
             /\ DictGet(props, T("name")).type = T("boolean")

\* the names of the raw parameters with the given `in`
RawGroup(details, where) ==
    LET Test(q) == HasKey(q, K("in")) /\ MapGet(q, K("in")) = T(where)
        sel == SelectSeq(ParamItems(details), Test)
    IN  [j \in 1..Len(sel) |-> MapGet(sel[j], K("name")).str]

\* the property names of the raw application/json request-body schema
RawJsonGroup(details) ==
    LET rb == MapGet(details, K("requestBody"))
        js == MapGet(MapGet(rb, K("content")), JsonType)
        pr == MapGet(MapGet(js, K("schema")), K("properties"))
    IN  IF /\ HasKey(details, K("requestBody"))
           /\ HasKey(rb, K("content"))
           /\ HasKey(MapGet(rb, K("content")), JsonType)
           /\ HasKey(js, K("schema"))
           /\ HasKey(MapGet(js, K("schema")), K("properties"))
        THEN Keys(pr)
        ELSE << >>

PostLine == <<"    response = requests.post(url, headers=headers, params=params, json=body)">>
GetLine == <<"    response = requests.get(url, headers=headers, params=params)">>
BodyLine == <<"    body = {">>

\* C7: the stub's parameter list is the names of the raw parameters with
\* in=path, then those with in=query, then the property names of the raw
\* application/json schema, nothing removed; it POSTs a JSON body exactly
\* when the third group is not empty and GETs otherwise, whatever the method
\* of the operation and whatever was merged into the descriptor.
C7_StubFromRawOperation ==
    \A i \in Emitted :
        LET details == TraversalPairs[i].details
            code == openai_function_codes[i]
            third == RawJsonGroup(details)
        IN  /\ StartsWith(code,
                 <<"def ">> \o MapGet(details, K("operationId")).str \o <<"(">>
                 \o Join(RawGroup(details, "path") \o RawGroup(details, "query")
                         \o third, <<", ">>)
                 \o <<"):", LF>>)
            /\ third # << >> =>
                 (Occurs(PostLine, code) /\ Occurs(BodyLine, code)
                    /\ ~Occurs(GetLine, code))
            /\ third = << >> =>
                 (Occurs(GetLine, code) /\ ~Occurs(BodyLine, code)
                    /\ ~Occurs(PostLine, code))

\* a post operation whose body is behind a $ref: properties in the
\* descriptor, none in the stub, which GETs
C7_Witness ==
    /\ pc = "done"
    /\ \E i \in Emitted :
         /\ TraversalPairs[i].method = K("post")
         /\ HasKey(TraversalPairs[i].details, K("requestBody"))
         /\ IsRefNode(MapGet(TraversalPairs[i].details, K("requestBody")))
         /\ openai_functions[i].parameters.properties # << >>
         /\ StartsWith(openai_function_codes[i],
                       <<"def ", "refBody", "(", "):", LF>>)
         /\ Occurs(GetLine, openai_function_codes[i])

\* following $refs from the node at p for n steps
RECURSIVE Chase(_, _, _)
Chase(spec, p, n) ==
    IF n = 0 THEN p
    ELSE IF IsRefNode(At(spec, p)) /\ RefTarget(spec, At(spec, p)).ok
         THEN Chase(spec, RefTarget(spec, At(spec, p)).ptr, n - 1)
         ELSE p

SchemaCount(spec) ==
    Len(MapGet(MapGet(spec, K("components")), K("schemas")).map)

\* the node at p is a $ref whose target is, through $refs, itself
OnCycle(spec, p) ==
    /\ IsRefNode(At(spec, p))
    /\ \E n \in 1..SchemaCount(spec) : Chase(spec, p, n) = p

\* the node after one dereferencing, by direct indexing
Once(spec, p) ==
    IF IsRefNode(At(spec, p)) THEN RefTarget(spec, At(spec, p)).ptr ELSE p

\* C8 as stated: chasing a schema on a $ref cycle through the flattener
\* never returns a result.
C8_CycleNeverReturns ==
    pc = "merge" => ~OnCycle(openapi_spec, schema)

\* how far a run has come: the pair, the part of the loop body, the pass
\* of the inner loop, the step of the pass
Part ==
    CASE pc = "start" -> 0
      [] pc = "params" -> 1
      [] pc \in {"content", "flatten", "props", "merge"} -> 2
      [] pc = "stub" -> 3
      [] pc = "loop" -> 4
      [] pc = "write" -> 5
      [] pc = "print" -> 6
      [] pc = "done" -> 7
      [] OTHER -> 8

StepOfPass ==
    CASE pc = "flatten" -> 1
      [] pc = "props" -> 2
      [] pc = "merge" -> 3
      [] OTHER -> 0

Rank == <<pi, mi, Part, k, StepOfPass>>

\* lexicographic order
RECURSIVE Below(_, _)
Below(a, b) ==
    /\ a # << >>
    /\ \/ Head(a) < Head(b)
       \/ Head(a) = Head(b) /\ Below(Tail(a), Tail(b))

\* C8 as amended: a $ref cycle does not keep a conversion from ending.
\* Every step of a run makes progress in a bounded order, and the flattener
\* called on a schema on a $ref cycle resolves it once and returns, with
\* empty properties and a new empty required list.
C8_CycleTerminates ==
    [][/\ Below(Rank, Rank')
       /\ (pc = "flatten" /\ OnCycle(openapi_spec, schema))
            => (pc' = "props" /\ ep_schema' = Once(openapi_spec, schema))
       /\ (pc = "props" /\ OnCycle(openapi_spec, schema))
            => (pc' = "merge" /\ properties' = << >> /\ required'.loc = "fresh")
      ]_vars

\* the flattener has returned for a schema on a cycle
C8_Witness ==
    /\ pc = "merge"
    /\ OnCycle(openapi_spec, schema)
    /\ properties = << >>

\* type and description read from a node, with extract_properties' defaults
Described(n) ==
    Descriptor(IF HasKey(n, K("type")) THEN MapGet(n, K("type")) ELSE T("object"),
               IF HasKey(n, K("description")) THEN MapGet(n, K("description"))
               ELSE EmptyStr)

\* C9: flatten dereferences one level.  When it has returned for the schema
\* it was given: the top node was resolved once; a top-level chain of two
\* $refs gives empty properties and an empty required list; each property
\* is described by its definition resolved once, so a property whose target
\* is another $ref has type "object" and description "".
C9_OneLevel ==
    pc = "merge" =>
      LET top == Once(openapi_spec, schema)
          n == At(openapi_spec, top)
          pp == Append(top, KeyStep(K("properties")))
          names == IF HasKey(n, K("properties"))
                   THEN Keys(MapGet(n, K("properties"))) ELSE << >>
      IN  /\ ep_schema = top
          /\ (IsRefNode(At(openapi_spec, schema)) /\ IsRefNode(n)
                /\ Len(n.map) = 1)
             => (properties = << >>
                   /\ ListNode(openapi_spec, required) = L(<< >>))
          /\ Len(properties) = Len(names)
          /\ \A j \in 1..Len(names) :
               LET def == Append(pp, KeyStep(names[j]))
                   d == At(openapi_spec, Once(openapi_spec, def))
               IN  /\ properties[j].k = S(names[j])
                   /\ properties[j].v = Described(d)
                   /\ (IsRefNode(At(openapi_spec, def)) /\ IsRefNode(d)
                         /\ Len(d.map) = 1)
                      => properties[j].v = Descriptor(T("object"), EmptyStr)

\* flatten was given a $ref to a $ref to a schema with properties and
\* returned nothing
C9_Witness ==
    /\ pc = "merge"
    /\ IsRefNode(At(openapi_spec, schema))
    /\ IsRefNode(At(openapi_spec, Once(openapi_spec, schema)))
    /\ HasKey(At(openapi_spec, Chase(openapi_spec, schema, 2)), K("properties"))
    /\ properties = << >>
    /\ required.loc = "fresh"

\* C10: no step of a conversion changes the document.
C10_DocumentReadOnly == [][openapi_spec' = openapi_spec]_vars

ThingRequired ==
    << KeyStep(K("components")), KeyStep(K("schemas")), KeyStep(K("Thing")),
       KeyStep(K("required")) >>

\* two operations took their required list from the same schema, whose own
\* list is what it was
C10_Witness ==
    /\ pc = "done"
    /\ Len(openai_functions) = 2
    /\ openai_functions[1].parameters.required = << T("name") >>
    /\ openai_functions[2].parameters.required = << T("name") >>
    /\ At(openapi_spec, ThingRequired) = L(<< T("name") >>)

====
